---------------------------- MODULE Spec2Model ----------------------------
(***************************************************************************)
(* Model of roboswish.py: the streaming chat worker (OllamaWorker.run),    *)
(* the model availability check (check_ollama_available and its startup    *)
(* caller), the chat panel (ChatSidebar) and the mode launcher with its     *)
(* focus timer (RoboSwish).                                                *)
(*                                                                         *)
(* Text is a sequence of one-character strings, so that concatenation and  *)
(* str.strip() are computed character by character.  A decoded JSON object *)
(* (a Python dict) is a function from its keys to its values; the empty    *)
(* dict is the function with the empty domain.                             *)
(***************************************************************************)
EXTENDS Integers, Sequences, FiniteSets, TLC

(***************************************************************************)
(* Bounds of the model.                                                    *)
(***************************************************************************)
MaxFragLen == 2     \* longest message.content fragment, in characters
MaxLines == 3       \* most lines the server sends in one response body
MaxModels == 2      \* most entries in the server's model list
MaxRequests == 3    \* most prompts submitted to the chat panel

(***************************************************************************)
(* Text.                                                                   *)
(***************************************************************************)
Whitespace == {" "}
Chars == {"a"} \cup Whitespace

RECURSIVE StringsUpTo(_)
StringsUpTo(n) ==
    IF n = 0 THEN {<<>>}
    ELSE LET shorter == StringsUpTo(n - 1)
         IN  shorter \cup {Append(s, c) : s \in shorter, c \in Chars}

\* str.lstrip(): drop leading whitespace
RECURSIVE LStrip(_)
LStrip(s) ==
    IF s = <<>> THEN <<>>
    ELSE IF Head(s) \in Whitespace THEN LStrip(Tail(s))
    ELSE s

\* str.rstrip(): drop trailing whitespace
RECURSIVE RStrip(_)
RStrip(s) ==
    IF s = <<>> THEN <<>>
    ELSE IF s[Len(s)] \in Whitespace THEN RStrip(SubSeq(s, 1, Len(s) - 1))
    ELSE s

\* str.strip() as called on full_content at the end of the stream
Strip(s) == RStrip(LStrip(s))

(***************************************************************************)
(* Decoded JSON objects and response lines.                                *)
(***************************************************************************)
EmptyDict == [k \in {} |-> TRUE]
None == [none |-> TRUE]             \* Python None; no decoded object has this key

Fragments == StringsUpTo(MaxFragLen)
ErrorPayloads == {"", "model not found"}

\* the value of the "message" key: with a content fragment, or without one
Messages == {[content |-> f] : f \in Fragments} \cup {[role |-> "assistant"]}

DataObjects ==
         {EmptyDict, [done |-> TRUE]}
    \cup {[message |-> m] : m \in Messages}
    \cup {[error |-> e] : e \in ErrorPayloads}
    \cup {[error |-> "", message |-> [content |-> <<"a">>]]}

\* one line of r.iter_lines(): empty, not decodable as JSON, or a JSON object
Lines ==
         {[kind |-> "empty"], [kind |-> "bad"]}
    \cup {[kind |-> "json", data |-> d] : d \in DataObjects}

\* bool(x) for None and for a dict
Truthy(x) == x # None /\ DOMAIN x # {}

\* dict.get(key) followed by a truth test, for a text value
HasText(d, key) == key \in DOMAIN d /\ d[key] # <<>>

(***************************************************************************)
(* Signals of OllamaWorker.                                                *)
(***************************************************************************)
ResultEvent(text) == [sig |-> "result", text |-> text]
OllamaErrorEvent(data) ==
    [sig |-> "error", msg |-> "Ollama error", payload |-> data.error, raw |-> data]
NoValidEvent(last) ==
    [sig |-> "error", msg |-> "No valid response from Ollama", raw |-> last]
NoResponseEvent == [sig |-> "error", msg |-> "No response from Ollama"]
ApiErrorEvent(exc) == [sig |-> "error", msg |-> "Error calling Ollama API", exc |-> exc]

(***************************************************************************)
(* OllamaWorker.run, the parts that are functions of their arguments.      *)
(***************************************************************************)
\* HTTP status of the response that requests.post hands back
StatusCodes == {200, 300, 404, 500}

\* a status check that lets client errors through
RaisesForStatusOnlyServer(code) == 500 <= code /\ code < 600

\* r.raise_for_status(): raises HTTPError for 4xx and 5xx
RaisesForStatus(code) == 400 <= code /\ code < 600

\* the locals of run() while the body is read
StreamStart == [full_content |-> <<>>, last_data |-> None, emitted |-> <<>>, returned |-> FALSE]

\* the loop body without the "return" after the error signal
LineStepNoReturn(st, line) ==
    IF line.kind = "empty" THEN st
    ELSE IF line.kind = "bad" THEN st
    ELSE LET data == line.data
             seen == [st EXCEPT !.last_data = data]
         IN  IF "error" \in DOMAIN data
             THEN [seen EXCEPT !.emitted = Append(@, OllamaErrorEvent(data))]
             ELSE IF "message" \in DOMAIN data /\ HasText(data.message, "content")
             THEN [seen EXCEPT !.full_content = @ \o data.message.content]
             ELSE seen

\* the loop body with each fragment stripped before it is appended
LineStepStripsFragment(st, line) ==
    IF line.kind = "empty" THEN st
    ELSE IF line.kind = "bad" THEN st
    ELSE LET data == line.data
             seen == [st EXCEPT !.last_data = data]
         IN  IF "error" \in DOMAIN data
             THEN [seen EXCEPT !.emitted = Append(@, OllamaErrorEvent(data)),
                               !.returned = TRUE]
             ELSE IF "message" \in DOMAIN data /\ HasText(data.message, "content")
             THEN [seen EXCEPT !.full_content = @ \o Strip(data.message.content)]
             ELSE seen

\* the loop body without the inner try: an undecodable line ends the stream
LineStepBadIsFatal(st, line) ==
    IF line.kind = "empty" THEN st
    ELSE IF line.kind = "bad"
    THEN [st EXCEPT !.emitted = Append(@, ApiErrorEvent("JSONDecodeError")),
                    !.returned = TRUE]
    ELSE LET data == line.data
             seen == [st EXCEPT !.last_data = data]
         IN  IF "error" \in DOMAIN data
             THEN [seen EXCEPT !.emitted = Append(@, OllamaErrorEvent(data)),
                               !.returned = TRUE]
             ELSE IF "message" \in DOMAIN data /\ HasText(data.message, "content")
             THEN [seen EXCEPT !.full_content = @ \o data.message.content]
             ELSE seen

\* one iteration of "for line in r.iter_lines()"
LineStep(st, line) ==
    IF line.kind = "empty" THEN st                       \* if not line: continue
    ELSE IF line.kind = "bad" THEN st                    \* json.loads raises; logged
    ELSE LET data == line.data
             seen == [st EXCEPT !.last_data = data]
         IN  IF "error" \in DOMAIN data
             THEN [seen EXCEPT !.emitted = Append(@, OllamaErrorEvent(data)),
                               !.returned = TRUE]
             ELSE IF "message" \in DOMAIN data /\ HasText(data.message, "content")
             THEN [seen EXCEPT !.full_content = @ \o data.message.content]
             ELSE seen

\* the code after the loop with the last two branches merged
FinishWithoutElse(st) ==
    LET text == Strip(st.full_content)
        event == IF text # <<>> THEN ResultEvent(text)
                 ELSE NoValidEvent(st.last_data)
    IN  [st EXCEPT !.emitted = Append(@, event), !.returned = TRUE]

\* the code after the loop
Finish(st) ==
    LET text == Strip(st.full_content)
        event == IF text # <<>> THEN ResultEvent(text)
                 ELSE IF Truthy(st.last_data) THEN NoValidEvent(st.last_data)
                 ELSE NoResponseEvent
    IN  [st EXCEPT !.emitted = Append(@, event), !.returned = TRUE]

\* the loop over the lines that arrive
RECURSIVE ReadLines(_, _)
ReadLines(st, lines) ==
    IF st.returned \/ lines = <<>> THEN st
    ELSE ReadLines(LineStep(st, Head(lines)), Tail(lines))

\* the loop and the code after it, over a whole response body
ReadAll(st, lines) ==
    LET after == ReadLines(st, lines)
    IN  IF after.returned THEN after ELSE Finish(after)

\* what the chat endpoint does to one POST: no connection, or a response with
\* a status and a body, whose reading may break off after the lines
ChatReplies(bodies) ==
         {[kind |-> "refused"]}
    \cup {[kind |-> "response", status |-> c, lines |-> b, broken |-> k] :
              c \in StatusCodes, b \in bodies, k \in BOOLEAN}

\* run() from the POST to its return: the signals it emits
Run(reply) ==
    IF reply.kind = "refused" THEN <<ApiErrorEvent("ConnectionError")>>
    ELSE IF RaisesForStatus(reply.status) THEN <<ApiErrorEvent("HTTPError")>>
    ELSE LET after == ReadLines(StreamStart, reply.lines)
         IN  IF after.returned THEN after.emitted
             ELSE IF reply.broken THEN <<ApiErrorEvent("ChunkedEncodingError")>>
             ELSE Finish(after).emitted

(***************************************************************************)
(* check_ollama_available: model names and the listing endpoint's replies. *)
(***************************************************************************)
llama == <<"l", "l", "a", "m", "a">>
llama2 == llama \o <<"2">>
Llama2 == <<"L">> \o Tail(llama2)
mistral == <<"m", "i", "s", "t", "r", "a", "l">>
Tagged(name) == name \o <<":", "7", "b">>

\* the default of the model_name parameter, and of OLLAMA_MODEL
DefaultModelName == llama2

\* values OLLAMA_MODEL can be configured to, and model_name can be called with
ModelNames == {<<>>, llama, llama2, Llama2, mistral, Tagged(llama2)}

\* one entry of "models": with a name, or without the "name" key
EntryNames == {<<>>, llama, llama2, Llama2, Tagged(llama2), mistral, Tagged(mistral)}
Entries == {[name |-> n] : n \in EntryNames} \cup {[size |-> 7]}

RECURSIVE ListsUpTo(_, _)
ListsUpTo(S, n) ==
    IF n = 0 THEN {<<>>}
    ELSE LET shorter == ListsUpTo(S, n - 1)
         IN  shorter \cup {Append(l, e) : l \in shorter, e \in S}

Malformed == [malformed |-> TRUE]   \* a body r.json() cannot parse
Bodies ==
         {Malformed, EmptyDict}
    \cup {[models |-> l] : l \in ListsUpTo(Entries, MaxModels)}

\* what requests.get meets: no connection, or a response
TagsReplies ==
         {[kind |-> "refused"]}
    \cup {[kind |-> "response", status |-> c, body |-> b] : c \in StatusCodes, b \in Bodies}

\* dict.get(key, default)
DictGet(d, key, default) == IF key \in DOMAIN d THEN d[key] ELSE default

\* a substring test that only accepts the whole text
ContainsWhole(needle, hay) == needle = hay

\* needle in hay, for str
Contains(needle, hay) ==
    \E i \in 0..(Len(hay) - Len(needle)) :
        \A k \in 1..Len(needle) : hay[i + k] = needle[k]

NotReachable(exc) == [ok |-> FALSE, detail |-> [msg |-> "Ollama API not reachable", exc |-> exc]]
NotFound(name) == [ok |-> FALSE, detail |-> [msg |-> "not found in Ollama", model |-> name]]
Available == [ok |-> TRUE, detail |-> None]

\* check_ollama_available(model_name), given what the server answers
CheckOllamaAvailable(name, reply) ==
    IF reply.kind = "refused" THEN NotReachable("ConnectionError")
    ELSE IF RaisesForStatus(reply.status) THEN NotReachable("HTTPError")
    ELSE IF reply.body = Malformed THEN NotReachable("JSONDecodeError")
    ELSE LET tags == DictGet(reply.body, "models", <<>>)
         IN  IF ~\E i \in 1..Len(tags) : Contains(name, DictGet(tags[i], "name", <<>>))
             THEN NotFound(name)
             ELSE Available

(***************************************************************************)
(* State.                                                                  *)
(***************************************************************************)
VARIABLES
    pc,             \* where run() is: "start", "posted", "iter", "done"
    posts,          \* number of HTTP POSTs issued by this invocation
    status,         \* status code of the response, 0 before there is one
    fault,          \* the exception that reached the outer handler, or "none"
    received,       \* the lines iter_lines() has yielded so far
    full_content,   \* the accumulator
    last_data,      \* the last decoded object, or None
    emitted,        \* the signals emitted so far, in order
    OLLAMA_MODEL,   \* the configured model name, sent as "model" by run()
    check_pc,       \* where the availability check is
    model_name,     \* the argument of check_ollama_available
    tags_reply,     \* what the listing endpoint answered
    ret,            \* what check_ollama_available returned
    warned,         \* whether the "Ollama Not Available" warning was scheduled
    send_btn,       \* ChatSidebar.send_btn is enabled
    chat_input,     \* ChatSidebar.chat_input: [enabled, text]
    chat_history,   \* the blocks of ChatSidebar.chat_history, in order
    worker,         \* ChatSidebar.worker: index into threads, 0 for None
    threads,        \* every OllamaWorker started, with its prompt and state
    queue,          \* signals queued for the GUI thread, in emission order
    focus_timer,    \* RoboSwish.focus_timer: NoTimer, or the running QTimer
    time_left,      \* RoboSwish.time_left
    modes_file,     \* what MODES_FILE holds on disk
    modes,          \* RoboSwish.modes: mode name -> URLs
    mode_buttons,   \* RoboSwish.mode_buttons: mode name -> [urls, enabled]
    focus_btn,      \* RoboSwish.focus_btn is enabled
    last_launch     \* the most recent launch_mode call and what it did

vars == <<pc, posts, status, fault, received, full_content, last_data, emitted,
          OLLAMA_MODEL, check_pc, model_name, tags_reply, ret, warned,
          send_btn, chat_input, chat_history, worker, threads, queue,
          focus_timer, time_left, modes_file, modes, mode_buttons, focus_btn,
          last_launch>>

launcherVars == <<focus_timer, time_left, modes_file, modes, mode_buttons, focus_btn,
                  last_launch>>

chatVars == <<send_btn, chat_input, chat_history, worker, threads, queue>>

checkVars == <<OLLAMA_MODEL, check_pc, model_name, tags_reply, ret, warned>>

workerVars == <<pc, posts, status, fault, received, full_content, last_data, emitted>>

Locals == [full_content |-> full_content, last_data |-> last_data,
           emitted |-> emitted, returned |-> pc = "done"]

SetLocals(st) ==
    /\ full_content' = st.full_content
    /\ last_data' = st.last_data
    /\ emitted' = st.emitted
    /\ pc' = IF st.returned THEN "done" ELSE "iter"

WorkerInit ==
    /\ pc = "start"
    /\ posts = 0
    /\ status = 0
    /\ fault = "none"
    /\ received = <<>>
    /\ full_content = <<>>
    /\ last_data = None
    /\ emitted = <<>>

\* the outer "except Exception as e": one error signal, then run() ends
Except(exc) ==
    /\ fault' = exc
    /\ emitted' = Append(emitted, ApiErrorEvent(exc))
    /\ pc' = "done"

\* requests.post(...) returns a response
Post(code) ==
    /\ pc = "start"
    /\ posts' = posts + 1
    /\ status' = code
    /\ pc' = "posted"
    /\ UNCHANGED <<fault, received, full_content, last_data, emitted>>
    /\ UNCHANGED <<checkVars, chatVars, launcherVars>>

\* requests.post(...) raises: connection refused, DNS failure, timeout
PostRaises ==
    /\ pc = "start"
    /\ posts' = posts + 1
    /\ Except("ConnectionError")
    /\ UNCHANGED <<status, received, full_content, last_data>>
    /\ UNCHANGED <<checkVars, chatVars, launcherVars>>

\* r.raise_for_status(), then the two assignments before the loop
RaiseForStatus ==
    /\ pc = "posted"
    /\ IF RaisesForStatus(status)
       THEN /\ Except("HTTPError")
            /\ UNCHANGED <<full_content, last_data>>
       ELSE /\ SetLocals([StreamStart EXCEPT !.emitted = emitted])
            /\ UNCHANGED fault
    /\ UNCHANGED <<posts, status, received>>
    /\ UNCHANGED <<checkVars, chatVars, launcherVars>>

\* iter_lines() yields a line and the loop body runs
ReadLine(line) ==
    /\ pc = "iter"
    /\ Len(received) < MaxLines
    /\ received' = Append(received, line)
    /\ SetLocals(LineStep(Locals, line))
    /\ UNCHANGED <<posts, status, fault>>
    /\ UNCHANGED <<checkVars, chatVars, launcherVars>>

\* iter_lines() raises in the middle of the body
ReadRaises ==
    /\ pc = "iter"
    /\ Except("ChunkedEncodingError")
    /\ UNCHANGED <<posts, status, received, full_content, last_data>>
    /\ UNCHANGED <<checkVars, chatVars, launcherVars>>

\* iter_lines() is exhausted: the server closed the connection
StreamEnd ==
    /\ pc = "iter"
    /\ SetLocals(Finish(Locals))
    /\ UNCHANGED <<posts, status, fault, received>>
    /\ UNCHANGED <<checkVars, chatVars, launcherVars>>

WorkerNext ==
    \/ \E code \in StatusCodes : Post(code)
    \/ PostRaises
    \/ RaiseForStatus
    \/ \E line \in Lines : ReadLine(line)
    \/ ReadRaises
    \/ StreamEnd

(***************************************************************************)
(* The availability check.                                                 *)
(***************************************************************************)
NoReply == [kind |-> "none"]
NoReturn == [ok |-> FALSE, detail |-> None]

CheckIdle ==
    /\ check_pc = "idle"
    /\ model_name = DefaultModelName
    /\ tags_reply = NoReply
    /\ ret = NoReturn
    /\ warned = FALSE

\* a call check_ollama_available(name), from the GET to the return
CallCheck(name, reply) ==
    /\ check_pc = "idle"
    /\ model_name' = name
    /\ tags_reply' = reply
    /\ ret' = CheckOllamaAvailable(name, reply)
    /\ check_pc' = "returned"
    /\ UNCHANGED <<OLLAMA_MODEL, warned>>
    /\ UNCHANGED <<workerVars, chatVars, launcherVars>>

\* do_check() on the startup thread: the call takes the parameter's default
DoCheck(reply) ==
    /\ check_pc = "idle"
    /\ model_name' = DefaultModelName
    /\ tags_reply' = reply
    /\ ret' = CheckOllamaAvailable(DefaultModelName, reply)
    /\ warned' = ~ret'.ok                   \* QTimer.singleShot(0, show)
    /\ check_pc' = "returned"
    /\ UNCHANGED OLLAMA_MODEL
    /\ UNCHANGED <<workerVars, chatVars, launcherVars>>

(***************************************************************************)
(* The chat panel, ChatSidebar.                                            *)
(***************************************************************************)
\* what the user can have typed into chat_input
Prompts == {<<>>, <<" ">>, <<"a">>, <<" ", "b", " ">>}

\* response bodies the chat endpoint sends to the panel's workers: one for
\* each way run() ends
PanelBodies ==
    {<<>>,
     <<[kind |-> "json", data |-> [message |-> [content |-> <<"a", " ">>]]]>>,
     <<[kind |-> "json", data |-> [error |-> "model not found"]]>>,
     <<[kind |-> "bad"], [kind |-> "json", data |-> [done |-> TRUE]]>>}

\* blocks of chat_history, as append_message writes them
YouBlock(text) == [sender |-> "You", said |-> text]
ThinkingBlock == [sender |-> "Robo", thinking |-> TRUE]
ReplyBlock(text) == [sender |-> "Robo", reply |-> text]
ErrorBlock(event) == [sender |-> "Robo", red |-> event]
StartFailedBlock == [sender |-> "Robo", red |-> [msg |-> "Failed to start chat worker"]]

\* the cursor moves to the end and the block under it is removed
RemoveLastBlock(blocks) ==
    IF blocks = <<>> THEN <<>> ELSE SubSeq(blocks, 1, Len(blocks) - 1)

ChatInit ==
    /\ send_btn = TRUE
    /\ chat_input = [enabled |-> TRUE, text |-> <<>>]
    /\ chat_history = <<>>
    /\ worker = 0
    /\ threads = <<>>
    /\ queue = <<>>

\* the user edits the input field; a disabled field takes no input
EditInput(text) ==
    /\ chat_input.enabled
    /\ text # chat_input.text
    /\ chat_input' = [chat_input EXCEPT !.text = text]
    /\ UNCHANGED <<send_btn, chat_history, worker, threads, queue>>
    /\ UNCHANGED <<workerVars, checkVars, launcherVars>>

\* how "self.worker = OllamaWorker(...); ...; self.worker.start()" can go
StartOutcomes == {"started", "OllamaWorker raises", "start raises"}

\* the try block of send_message and its except clause
StartWorker(user_text, outcome, shown) ==
    /\ chat_history' =
          shown \o (IF outcome = "started" THEN <<>> ELSE <<StartFailedBlock>>)
    /\ IF outcome = "OllamaWorker raises"
       THEN UNCHANGED <<worker, threads>>
       ELSE /\ threads' = Append(threads,
                   [prompt |-> user_text,
                    state |-> IF outcome = "started" THEN "running" ELSE "unstarted"])
            /\ worker' = Len(threads) + 1

\* send_message with the two setEnabled(False) calls left out
SendMessageLeavesEnabled(outcome) ==
    /\ send_btn
    /\ Len(threads) < MaxRequests
    /\ LET user_text == Strip(chat_input.text)
       IN  IF user_text = <<>>
           THEN UNCHANGED chatVars
           ELSE /\ chat_input' = [chat_input EXCEPT !.text = <<>>]
                /\ UNCHANGED <<send_btn, queue>>
                /\ StartWorker(user_text, outcome,
                               chat_history \o <<YouBlock(user_text), ThinkingBlock>>)
    /\ UNCHANGED <<workerVars, checkVars, launcherVars>>

\* the send button is clicked: send_message.  A disabled button emits no
\* clicked signal.
SendMessage(outcome) ==
    /\ send_btn
    /\ Len(threads) < MaxRequests
    /\ LET user_text == Strip(chat_input.text)
       IN  IF user_text = <<>>
           THEN UNCHANGED chatVars                       \* if not user_text: return
           ELSE /\ chat_input' = [enabled |-> FALSE, text |-> <<>>]
                /\ send_btn' = FALSE
                /\ UNCHANGED queue
                /\ StartWorker(user_text, outcome,
                               chat_history \o <<YouBlock(user_text), ThinkingBlock>>)
    /\ UNCHANGED <<workerVars, checkVars, launcherVars>>

\* a worker thread executes run(); its signal is queued for the GUI thread
WorkerRun(w, reply) ==
    /\ w \in 1..Len(threads)
    /\ threads[w].state = "running"
    /\ threads' = [threads EXCEPT ![w].state = "finished"]
    /\ queue' = queue \o [i \in 1..Len(Run(reply)) |-> [from |-> w, event |-> Run(reply)[i]]]
    /\ UNCHANGED <<send_btn, chat_input, chat_history, worker>>
    /\ UNCHANGED <<workerVars, checkVars, launcherVars>>

\* handle_result(message)
HandleResult(message) ==
    /\ chat_history' = Append(RemoveLastBlock(chat_history), ReplyBlock(message))
    /\ send_btn' = TRUE
    /\ chat_input' = [chat_input EXCEPT !.enabled = TRUE]

\* handle_error(message); the popup follows the two setEnabled(True) calls
HandleError(event) ==
    /\ chat_history' = Append(RemoveLastBlock(chat_history), ErrorBlock(event))
    /\ send_btn' = TRUE
    /\ chat_input' = [chat_input EXCEPT !.enabled = TRUE]

\* the GUI thread takes the next queued signal to the slot connected to it
Deliver ==
    /\ queue # <<>>
    /\ IF Head(queue).event.sig = "result"
       THEN HandleResult(Head(queue).event.text)
       ELSE HandleError(Head(queue).event)
    /\ queue' = Tail(queue)
    /\ UNCHANGED <<worker, threads>>
    /\ UNCHANGED <<workerVars, checkVars, launcherVars>>

(***************************************************************************)
(* The mode launcher and the focus timer, RoboSwish.                       *)
(***************************************************************************)
FOCUS_BURST_SECONDS == 5 * 60

NoTimer == "None"
QTimer == "QTimer"

\* the modes a modes file or the mode editor can hold
ModeNames == {"Work", "Play"}
UrlLists == {<<>>, <<"https://example.org">>}
ModeDicts == UNION {[D -> UrlLists] : D \in SUBSET ModeNames}

Unreadable == [unreadable |-> TRUE]     \* no file, or not JSON: open/json.load raises
ModeFiles == ModeDicts \cup {Unreadable}

\* the first half of load_modes: self.modes after reading the file
ReadModes(file) == IF file = Unreadable THEN EmptyDict ELSE file

\* the second half of load_modes: one new QPushButton for each mode
NewModeButtons(dict) == [n \in DOMAIN dict |-> [urls |-> dict[n], enabled |-> TRUE]]

\* setEnabled(flag) on every member of mode_buttons
SetAllEnabled(buttons, flag) == [n \in DOMAIN buttons |-> [buttons[n] EXCEPT !.enabled = flag]]

NoLaunch == [urls |-> <<>>, timer |-> NoTimer, spawned |-> FALSE]

\* RoboSwish.__init__ up to load_modes(), for the file found on disk
LauncherInit ==
    /\ focus_timer = NoTimer
    /\ time_left = FOCUS_BURST_SECONDS
    /\ modes = ReadModes(modes_file)
    /\ mode_buttons = NewModeButtons(modes)
    /\ focus_btn = TRUE
    /\ last_launch = NoLaunch

\* launch_mode without the test of focus_timer
LaunchModeIgnoresTimer(urls, popen_ok) ==
    /\ last_launch' = [urls |-> urls, timer |-> focus_timer,
                       spawned |-> urls # <<>> /\ popen_ok]
    /\ UNCHANGED <<focus_timer, time_left, modes_file, modes, mode_buttons, focus_btn>>

\* launch_mode(urls); popen_ok: subprocess.Popen starts the browser, else raises
LaunchMode(urls, popen_ok) ==
    /\ last_launch' = [urls |-> urls, timer |-> focus_timer,
                       spawned |-> IF urls = <<>> \/ focus_timer # NoTimer
                                   THEN FALSE           \* return
                                   ELSE popen_ok]
    /\ UNCHANGED <<focus_timer, time_left, modes_file, modes, mode_buttons, focus_btn>>

\* a mode button is clicked; a disabled button emits no clicked signal
ClickModeButton(name, popen_ok) ==
    /\ name \in DOMAIN mode_buttons
    /\ mode_buttons[name].enabled
    /\ LaunchMode(mode_buttons[name].urls, popen_ok)
    /\ UNCHANGED <<workerVars, checkVars, chatVars>>

\* the focus button is clicked: start_focus_burst
StartFocusBurst ==
    /\ focus_btn
    /\ IF focus_timer # NoTimer
       THEN UNCHANGED <<focus_timer, time_left, mode_buttons, focus_btn>>
       ELSE /\ time_left' = FOCUS_BURST_SECONDS
            /\ focus_btn' = FALSE
            /\ mode_buttons' = SetAllEnabled(mode_buttons, FALSE)
            /\ focus_timer' = QTimer
    /\ UNCHANGED <<modes_file, modes, last_launch>>
    /\ UNCHANGED <<workerVars, checkVars, chatVars>>

\* the running timer fires: tick
Tick ==
    /\ focus_timer = QTimer
    /\ time_left' = time_left - 1
    /\ IF time_left' <= 0
       THEN /\ focus_timer' = NoTimer
            /\ focus_btn' = TRUE
            /\ mode_buttons' = SetAllEnabled(mode_buttons, TRUE)
       ELSE UNCHANGED <<focus_timer, focus_btn, mode_buttons>>
    /\ UNCHANGED <<modes_file, modes, last_launch>>
    /\ UNCHANGED <<workerVars, checkVars, chatVars>>

\* open_mode_editor, the dialog accepted with the modes edited to dict;
\* saved: whether writing MODES_FILE works.  load_modes then reads the file.
AcceptModeEditor(dict, saved) ==
    /\ modes_file' = IF saved THEN dict ELSE modes_file
    /\ modes' = ReadModes(modes_file')
    /\ mode_buttons' = NewModeButtons(modes')
    /\ UNCHANGED <<focus_timer, time_left, focus_btn, last_launch>>
    /\ UNCHANGED <<workerVars, checkVars, chatVars>>

(***************************************************************************)
(* Specifications.                                                         *)
(***************************************************************************)
\* one invocation of OllamaWorker.run
Init == WorkerInit /\ OLLAMA_MODEL = DefaultModelName /\ CheckIdle /\ ChatInit
            /\ modes_file = EmptyDict /\ LauncherInit

Next == WorkerNext

Spec == Init /\ [][Next]_vars

\* one call of check_ollama_available, for every argument and every reply
InitCheck == WorkerInit /\ OLLAMA_MODEL = DefaultModelName /\ CheckIdle /\ ChatInit
            /\ modes_file = EmptyDict /\ LauncherInit

NextCheck == \E name \in ModelNames : \E reply \in TagsReplies : CallCheck(name, reply)

SpecCheck == InitCheck /\ [][NextCheck]_vars

\* program startup: OLLAMA_MODEL is read from the environment, then
\* check_ollama_status starts do_check
InitStartup == WorkerInit /\ OLLAMA_MODEL \in ModelNames /\ CheckIdle /\ ChatInit
            /\ modes_file = EmptyDict /\ LauncherInit

NextStartup == \E reply \in TagsReplies : DoCheck(reply)

SpecStartup == InitStartup /\ [][NextStartup]_vars

\* the chat panel, its worker threads and the GUI thread's queue
InitChat == WorkerInit /\ OLLAMA_MODEL = DefaultModelName /\ CheckIdle /\ ChatInit
            /\ modes_file = EmptyDict /\ LauncherInit

NextChat ==
    \/ \E text \in Prompts : EditInput(text)
    \/ \E outcome \in StartOutcomes : SendMessage(outcome)
    \/ \E w \in 1..MaxRequests : \E reply \in ChatReplies(PanelBodies) : WorkerRun(w, reply)
    \/ Deliver

SpecChat == InitChat /\ [][NextChat]_vars

\* the same, with the scheduling the program relies on: a started thread runs
\* run() to its end, and the GUI event loop delivers every queued signal
ChatFairness ==
    /\ WF_vars(Deliver)
    /\ \A w \in 1..MaxRequests :
          WF_vars(\E reply \in ChatReplies(PanelBodies) : WorkerRun(w, reply))

SpecChatFair == InitChat /\ [][NextChat]_vars /\ ChatFairness

\* the launcher: mode buttons, the focus button, the timer, the mode editor
InitLauncher == WorkerInit /\ OLLAMA_MODEL = DefaultModelName /\ CheckIdle /\ ChatInit
                /\ modes_file \in ModeFiles /\ LauncherInit

NextLauncher ==
    \/ \E name \in ModeNames : \E popen_ok \in BOOLEAN : ClickModeButton(name, popen_ok)
    \/ StartFocusBurst
    \/ Tick
    \/ \E dict \in ModeDicts : \E saved \in BOOLEAN : AcceptModeEditor(dict, saved)

SpecLauncher == InitLauncher /\ [][NextLauncher]_vars


(***************************************************************************)
(* What the claims speak of, read off the lines the server sent.           *)
(***************************************************************************)
Decoded(line) == line.kind = "json"
IsErrorChunk(line) == Decoded(line) /\ "error" \in DOMAIN line.data
NoErrorChunk == \A i \in 1..Len(received) : ~IsErrorChunk(received[i])

\* the message.content fragment a line carries, empty when it carries none
FragmentOf(line) ==
    IF Decoded(line) /\ "message" \in DOMAIN line.data
                     /\ "content" \in DOMAIN line.data.message
    THEN line.data.message.content
    ELSE <<>>

\* all fragments, concatenated in arrival order
RECURSIVE Concatenation(_)
Concatenation(lines) ==
    IF lines = <<>> THEN <<>>
    ELSE FragmentOf(Head(lines)) \o Concatenation(Tail(lines))

AllWhitespace(s) == \A i \in 1..Len(s) : s[i] \in Whitespace

\* t is s with whitespace removed at its two ends and nowhere else
TrimmedAtEndsOnly(t, s) ==
    /\ t # <<>> => (t[1] \notin Whitespace /\ t[Len(t)] \notin Whitespace)
    /\ \E i \in 0..Len(s) : \E j \in i..Len(s) :
          /\ t = SubSeq(s, i + 1, j)
          /\ AllWhitespace(SubSeq(s, 1, i))
          /\ AllWhitespace(SubSeq(s, j + 1, Len(s)))

\* the stream was read to its end or to an error chunk, with no exception
Completed == pc = "done" /\ fault = "none"

DecodedLines == SelectSeq(received, Decoded)
LastDecoded == DecodedLines[Len(DecodedLines)].data

IsSignal(e) == e.sig \in {"result", "error"}

(***************************************************************************)
(* C1: every invocation of run() emits exactly one terminal signal, result *)
(* or error: never two while it runs, and exactly one once it has ended,   *)
(* wherever a transport failure strikes and whatever lines arrive.         *)
(***************************************************************************)
C1_ExactlyOneTerminal ==
    /\ Len(emitted) <= 1
    /\ \A i \in 1..Len(emitted) : IsSignal(emitted[i])
    /\ pc = "done" <=> Len(emitted) = 1

C1_Witness ==
    /\ pc = "done"
    /\ fault = "none"
    /\ Len(received) = MaxLines
    /\ \E i \in 1..Len(received) : received[i].kind = "bad"
    /\ Len(emitted) = 1

(***************************************************************************)
(* C2: when the stream ends with no error chunk and no transport failure   *)
(* and the concatenation of all fragments is not blank, the one signal is  *)
(* result, and its text is that concatenation with whitespace removed at   *)
(* its two ends only.                                                      *)
(***************************************************************************)
C2_SuccessIsTrimmedConcatenation ==
    LET whole == Concatenation(received) IN
    (Completed /\ NoErrorChunk /\ ~AllWhitespace(whole)) =>
        /\ Len(emitted) = 1
        /\ emitted[1].sig = "result"
        /\ TrimmedAtEndsOnly(emitted[1].text, whole)

C2_Witness ==
    /\ Completed
    /\ Len(received) = 2
    /\ FragmentOf(received[1]) = <<" ", "a">>
    /\ FragmentOf(received[2]) = <<" ", "a">>
    /\ emitted = <<ResultEvent(<<"a", " ", "a">>)>>

(***************************************************************************)
(* C3: a decoded chunk with an "error" key is the last line processed:     *)
(* run() has ended, and its one signal is the error carrying that chunk's  *)
(* payload, also when fragments were accumulated before it.                *)
(***************************************************************************)
C3_ErrorChunkTerminates ==
    \A i \in 1..Len(received) :
        IsErrorChunk(received[i]) =>
            /\ i = Len(received)
            /\ pc = "done"
            /\ emitted = <<OllamaErrorEvent(received[i].data)>>

C3_Witness ==
    /\ pc = "done"
    /\ Len(received) = 2
    /\ full_content = <<"a", " ">>
    /\ IsErrorChunk(received[2])
    /\ emitted[1].payload = "model not found"

(***************************************************************************)
(* C4: when the stream ends with no error chunk, a blank accumulator and   *)
(* at least one decoded object, the signal is the "no valid response"      *)
(* error referencing the last decoded object.                              *)
(***************************************************************************)
C4_NoValidResponse ==
    (Completed /\ NoErrorChunk /\ AllWhitespace(Concatenation(received))
               /\ DecodedLines # <<>>) =>
        emitted = <<NoValidEvent(LastDecoded)>>

(***************************************************************************)
(* C5: when the stream ends and no line was decoded (no lines, or empty    *)
(* and undecodable lines only), the signal is the "no response" error.     *)
(***************************************************************************)
C5_NoResponse ==
    (Completed /\ DecodedLines = <<>>) => emitted = <<NoResponseEvent>>

C5_Witness ==
    /\ Completed
    /\ Len(received) = 2
    /\ received[1].kind = "bad"
    /\ received[2].kind = "empty"
    /\ emitted = <<NoResponseEvent>>

(***************************************************************************)
(* C6: empty and undecodable lines are skipped: the outcome of a completed *)
(* run equals the outcome of reading the same lines with the empty and     *)
(* undecodable ones removed.                                               *)
(***************************************************************************)
C6_UndecodableLinesSkipped ==
    Completed => emitted = ReadAll(StreamStart, DecodedLines).emitted

C6_Witness ==
    /\ Completed
    /\ Len(received) = 3
    /\ received[1].kind = "bad"
    /\ received[2].kind = "empty"
    /\ IsErrorChunk(received[3])
    /\ Len(emitted) = 1

(***************************************************************************)
(* C7 as stated: a failed POST, a non-2xx status or a read error gives one *)
(* error signal and no result, and at most one POST is issued.             *)
(***************************************************************************)
C7_TransportFailureAsStated ==
    /\ posts <= 1
    /\ (pc = "done" /\ (fault # "none" \/ status \notin 200..299)) =>
          /\ Len(emitted) = 1
          /\ emitted[1].sig = "error"

(***************************************************************************)
(* C7 amended: a failed POST, a 4xx or 5xx status or a read error gives    *)
(* one error signal and no result; a 4xx or 5xx response is never read;    *)
(* at most one POST is issued.                                             *)
(***************************************************************************)
C7_TransportFailure ==
    /\ posts <= 1
    /\ (status >= 400 /\ pc \in {"iter", "done"}) => fault = "HTTPError"
    /\ fault # "none" => (pc = "done" /\ emitted = <<ApiErrorEvent(fault)>>)

C7_Witness ==
    /\ pc = "done"
    /\ fault = "ChunkedEncodingError"
    /\ full_content = <<" ", "a">>
    /\ posts = 1
    /\ emitted[1].sig = "error"

(***************************************************************************)
(* What C8 and C9 speak of, read off the listing endpoint's reply.         *)
(***************************************************************************)
\* the exception the call meets, "none" when the request succeeds
RaisedBy(reply) ==
    IF reply.kind = "refused" THEN "ConnectionError"
    ELSE IF reply.status >= 400 THEN "HTTPError"
    ELSE IF reply.body = Malformed THEN "JSONDecodeError"
    ELSE "none"

\* the listed entries; none when "models" is missing
Listed(reply) == IF "models" \in DOMAIN reply.body THEN reply.body.models ELSE <<>>

\* needle occurs in hay as a contiguous, case-sensitive run of characters
IsInfix(needle, hay) ==
    \E i \in 0..Len(hay) : \E j \in i..Len(hay) : SubSeq(hay, i + 1, j) = needle

\* some listed entry has a name that contains the model name
SomeNameContains(name, reply) ==
    \E i \in 1..Len(Listed(reply)) :
        /\ "name" \in DOMAIN Listed(reply)[i]
        /\ IsInfix(name, Listed(reply)[i].name)

\* the same, an entry without a name counting as named ""
SomeNameOrBlankContains(name, reply) ==
    \E i \in 1..Len(Listed(reply)) :
        IsInfix(name, IF "name" \in DOMAIN Listed(reply)[i]
                      THEN Listed(reply)[i].name ELSE <<>>)

(***************************************************************************)
(* C8 as stated: check_ollama_available(model_name) returns (true, none)   *)
(* exactly when the request succeeds and some entry of models has a name   *)
(* containing model_name; (false, not found) when it succeeds with no such *)
(* entry; (false, exception description) on any exception.                 *)
(***************************************************************************)
C8_AvailableAsStated ==
    check_pc = "returned" =>
        ret = IF RaisedBy(tags_reply) # "none" THEN NotReachable(RaisedBy(tags_reply))
              ELSE IF SomeNameContains(model_name, tags_reply) THEN Available
              ELSE NotFound(model_name)

(***************************************************************************)
(* C8 amended: as stated, with an entry that has no name counting as an    *)
(* entry whose name is the empty string.                                   *)
(***************************************************************************)
C8_Available ==
    check_pc = "returned" =>
        ret = IF RaisedBy(tags_reply) # "none" THEN NotReachable(RaisedBy(tags_reply))
              ELSE IF SomeNameOrBlankContains(model_name, tags_reply) THEN Available
              ELSE NotFound(model_name)

C8_Witness ==
    /\ check_pc = "returned"
    /\ model_name = llama2
    /\ tags_reply.kind = "response"
    /\ tags_reply.status = 200
    /\ tags_reply.body = [models |-> <<[name |-> mistral], [name |-> Tagged(llama2)]>>]
    /\ ret = Available

(***************************************************************************)
(* C9: the startup check reports available exactly when the listing        *)
(* succeeds and some listed name contains the configured model name, the   *)
(* one run() sends as "model".                                             *)
(***************************************************************************)
C9_StartupChecksConfiguredModel ==
    check_pc = "returned" =>
        (ret.ok <=> /\ RaisedBy(tags_reply) = "none"
                    /\ SomeNameOrBlankContains(OLLAMA_MODEL, tags_reply))

(***************************************************************************)
(* What C10 speaks of.                                                     *)
(***************************************************************************)
\* the workers whose outcome has not been handled yet
InFlight ==
    {w \in 1..Len(threads) :
        \/ threads[w].state = "running"
        \/ \E i \in 1..Len(queue) : queue[i].from = w}

(***************************************************************************)
(* C10: while a submitted request's outcome has not been handled, the      *)
(* input field and the send button are disabled; so never more than one    *)
(* worker is in flight, and the outcome handled is that of the last prompt *)
(* in the history, whose placeholder it replaces.                          *)
(***************************************************************************)
C10_OneRequestAtATime ==
    /\ Cardinality(InFlight) <= 1
    /\ Len(queue) <= 1
    /\ InFlight # {} =>
          /\ ~send_btn
          /\ ~chat_input.enabled
          /\ InFlight = {worker}
          /\ Len(chat_history) >= 2
          /\ chat_history[Len(chat_history)] = ThinkingBlock
          /\ chat_history[Len(chat_history) - 1] = YouBlock(threads[worker].prompt)

C10_Witness ==
    /\ Len(threads) = 2
    /\ threads[1].state = "finished"
    /\ threads[2].state = "finished"
    /\ Len(queue) = 1
    /\ queue[1].from = 2
    /\ ~send_btn
    /\ ~chat_input.enabled

(***************************************************************************)
(* What C11 speaks of.                                                     *)
(***************************************************************************)
\* the last submission ended in the except clause of send_message
StartFailed ==
    chat_history # <<>> /\ chat_history[Len(chat_history)] = StartFailedBlock

\* a worker has emitted error and the signal waits for the GUI thread
FailurePending == \E i \in 1..Len(queue) : queue[i].event.sig = "error"

(***************************************************************************)
(* C11: after a failed submission, whether the worker emitted error or the *)
(* worker could not be started, the input field and the send button are    *)
(* eventually enabled again.                                               *)
(***************************************************************************)
C11_FailureIsNotFatal ==
    (StartFailed \/ FailurePending) ~> (send_btn /\ chat_input.enabled)

(***************************************************************************)
(* C12: while a focus burst runs, launch_mode spawns no browser process,   *)
(* also when it is called; and the timer is cleared only once the          *)
(* countdown has reached zero.                                             *)
(***************************************************************************)
C12_NoLaunchDuringBurst ==
    /\ last_launch.spawned => last_launch.timer = NoTimer
    /\ focus_timer = QTimer => time_left > 0
    /\ focus_timer = NoTimer => (time_left = FOCUS_BURST_SECONDS \/ time_left <= 0)

C12_Witness ==
    /\ focus_timer = QTimer
    /\ time_left < FOCUS_BURST_SECONDS
    /\ last_launch.timer = QTimer
    /\ last_launch.urls # <<>>
    /\ ~last_launch.spawned

(***************************************************************************)
(* C13: while a focus burst runs, every mode button in mode_buttons and    *)
(* the focus button are disabled.                                          *)
(***************************************************************************)
C13_ButtonsDisabledDuringBurst ==
    focus_timer = QTimer =>
        /\ ~focus_btn
        /\ \A n \in DOMAIN mode_buttons : ~mode_buttons[n].enabled

=============================================================================
